---------------------------- MODULE Spec2Model ----------------------------
(* Column reconciliation of xl_col_diff.py: compare_directory_files walks  *)
(* the file pairs, compare_and_sync_columns loads the two workbooks,       *)
(* reconciles every selected sheet (insertion pass, deletion pass, rename  *)
(* pass) and saves the old workbook once.                                  *)
(*                                                                         *)
(* A worksheet is a dense grid: row 1 (header) and the data rows, every    *)
(* row max_column cells wide; a cell that was never written is blank.      *)
(* A data cell holds the index of the column it was in when the run began  *)
(* (0 = blank), so that movement of data can be observed.                  *)
(*                                                                         *)
(* The worksheet operations are those of the tabular document provider:    *)
(* cell(row, column, value) stores value, insert_cols and delete_cols      *)
(* shift every row. Header cells of the input sheets hold names; a blank   *)
(* header cell arises only where an insertion lands past the last column.  *)
EXTENDS Integers, Sequences, FiniteSets, TLC

\* ------------------------------------------------------------------ bounds
MaxOldLen == 3
MaxNewLen == 3
NumRows == 1
MaxSheets == 3
MaxPairs == 2

\* ------------------------------------------------------------- vocabulary
\* an old header of at most three cells holds at most three distinct names;
\* the new header may hold one more that the old header cannot
OldNames == {"A", "B", "C"}
Names == OldNames \cup {"X"}
None == ""
EmptyCell == 0

DataName == <<"Data">>
TempName == <<"Temp", "_", "2024">>
YearName == <<"2024", "_", "Q1">>
SheetNames == {DataName, TempName, YearName}
NoRegex == <<>>
Regexes == {NoRegex, <<"Temp">>, <<"2024">>}

SyncTypes == {"rightmost", "moverows"}

\* ---------------------------------------------------------------- helpers
Range(s) == {s[i] : i \in 1..Len(s)}

Max(S) == CHOOSE m \in S : \A x \in S : x <= m

InsAt(s, i, v) == SubSeq(s, 1, i - 1) \o <<v>> \o SubSeq(s, i, Len(s))

RemoveAt(s, i) == SubSeq(s, 1, i - 1) \o SubSeq(s, i + 1, Len(s))

Pad(s, n, v) == s \o [k \in 1..(n - Len(s)) |-> v]

\* python list.insert(i, x), i zero-based: past the end it appends
ListInsert(s, i, x) == IF i >= Len(s) THEN Append(s, x) ELSE InsAt(s, i + 1, x)

\* ------------------------------------------------------ worksheet provider
MaxColumn(ws) ==
    Max({Len(ws.header)} \cup {Len(ws.rows[r]) : r \in 1..Len(ws.rows)})

\* [cell.value for cell in sheet[1]]
Row1(ws) == Pad(ws.header, MaxColumn(ws), None)

\* sheet.cell(row=1, column=col, value=v)
CellSet(ws, col, v) ==
    IF col > MaxColumn(ws)
    THEN [ws EXCEPT !.header = [Pad(ws.header, col, None) EXCEPT ![col] = v],
                    !.rows = [r \in 1..Len(ws.rows) |->
                                 Pad(ws.rows[r], col, EmptyCell)]]
    ELSE [ws EXCEPT !.header = [Pad(ws.header, col, None) EXCEPT ![col] = v]]

MoveRight(row, idx, blank) ==
    IF idx <= Len(row) THEN InsAt(row, idx, blank) ELSE row

\* faulty variant: only row 1 is shifted
InsertColsHeaderOnly(ws, idx) ==
    [ws EXCEPT !.header = MoveRight(ws.header, idx, None)]

\* sheet.insert_cols(idx)
InsertCols(ws, idx) ==
    [ws EXCEPT !.header = MoveRight(ws.header, idx, None),
               !.rows = [r \in 1..Len(ws.rows) |->
                            MoveRight(ws.rows[r], idx, EmptyCell)]]

MoveLeft(row, idx) == IF idx <= Len(row) THEN RemoveAt(row, idx) ELSE row

\* faulty variant: only row 1 loses the column
DeleteColsHeaderOnly(ws, idx) ==
    [ws EXCEPT !.header = MoveLeft(ws.header, idx)]

\* sheet.delete_cols(idx)
DeleteCols(ws, idx) ==
    [ws EXCEPT !.header = MoveLeft(ws.header, idx),
               !.rows = [r \in 1..Len(ws.rows) |-> MoveLeft(ws.rows[r], idx)]]

\* workbook.sheetnames
SheetNamesOf(wb) == [i \in 1..Len(wb) |-> wb[i].name]

\* name in workbook.sheetnames
HasSheet(wb, name) == \E i \in 1..Len(wb) : wb[i].name = name

IndexOfSheet(wb, name) == CHOOSE i \in 1..Len(wb) : wb[i].name = name

\* workbook[name]
SheetOf(wb, name) == wb[IndexOfSheet(wb, name)]

\* faulty variant: re.search: the pattern occurs anywhere in the name
ReSearch(pattern, name) ==
    \E i \in 0..(Len(name) - Len(pattern)) :
        SubSeq(name, i + 1, i + Len(pattern)) = pattern

\* re.match(pattern, name) for a literal pattern: the pattern is a prefix
ReMatch(pattern, name) ==
    /\ Len(pattern) <= Len(name)
    /\ SubSeq(name, 1, Len(pattern)) = pattern


\* ------------------------------------------- compare_and_sync_columns core
\* one missing column, sync_type 'rightmost'
AddRightmost(ws, hdrs, header) ==
    [ws |-> CellSet(ws, MaxColumn(ws) + 1, header),
     hdrs |-> Append(hdrs, header)]

\* faulty variant: the header cell of the inserted column is not written
AddMoveRowsBlank(ws, hdrs, col, header) ==
    [ws |-> InsertCols(ws, col),
     hdrs |-> ListInsert(hdrs, col - 1, header)]

\* one missing column, sync_type 'moverows'
AddMoveRows(ws, hdrs, col, header) ==
    [ws |-> CellSet(InsertCols(ws, col), col, header),
     hdrs |-> ListInsert(hdrs, col - 1, header)]

\* faulty variant: no test "header not in old_headers"
AddMissingAlways(ws, hdrs, col, header, st) ==
    IF st = "rightmost"
    THEN AddRightmost(ws, hdrs, header)
    ELSE AddMoveRows(ws, hdrs, col, header)

\* one iteration of the loop "Add missing columns to old_sheet"
AddMissing(ws, hdrs, col, header, st) ==
    IF header \in Range(hdrs)
    THEN [ws |-> ws, hdrs |-> hdrs]
    ELSE IF st = "rightmost"
         THEN AddRightmost(ws, hdrs, header)
         ELSE AddMoveRows(ws, hdrs, col, header)

ColsToDelete(hdrs, new_hdrs) ==
    {c \in 1..Len(hdrs) : hdrs[c] \notin Range(new_hdrs)}

Min(S) == CHOOSE m \in S : \A x \in S : m <= x

RECURSIVE DeleteAscending(_, _)
\* faulty variant: the columns are deleted lowest index first
DeleteAscending(ws, cols) ==
    IF cols = {} THEN ws
    ELSE LET c == Min(cols) IN DeleteAscending(DeleteCols(ws, c), cols \ {c})

RECURSIVE DeleteSorted(_, _)
\* for col_num in sorted(cols_to_delete, reverse=True): delete_cols(col_num)
DeleteSorted(ws, cols) ==
    IF cols = {} THEN ws
    ELSE LET c == Max(cols) IN DeleteSorted(DeleteCols(ws, c), cols \ {c})

\* faulty variant: the deletion block runs whatever allow_delete is
DeleteObsoleteAlways(ws, hdrs, new_hdrs, ad) ==
    LET ws2 == DeleteSorted(ws, ColsToDelete(hdrs, new_hdrs))
    IN  [ws |-> ws2, hdrs |-> Row1(ws2)]

\* the block "Delete columns from old_sheet if allow_delete is True"
DeleteObsolete(ws, hdrs, new_hdrs, ad) ==
    IF ad
    THEN LET ws2 == DeleteSorted(ws, ColsToDelete(hdrs, new_hdrs))
         IN  [ws |-> ws2, hdrs |-> Row1(ws2)]
    ELSE [ws |-> ws, hdrs |-> hdrs]

RECURSIVE RenameFromStrict(_, _, _, _)
\* faulty variant: col_num < len(old_headers): the last column is never renamed
RenameFromStrict(ws, hdrs, new_hdrs, k) ==
    IF k > Len(new_hdrs) THEN ws
    ELSE RenameFromStrict(IF k < Len(hdrs) /\ hdrs[k] # new_hdrs[k]
                          THEN CellSet(ws, k, new_hdrs[k]) ELSE ws,
                          hdrs, new_hdrs, k + 1)

RECURSIVE RenameFrom(_, _, _, _)
\* the loop "Rename columns in old_sheet to match new_sheet", from column k
RenameFrom(ws, hdrs, new_hdrs, k) ==
    IF k > Len(new_hdrs) THEN ws
    ELSE RenameFrom(IF k <= Len(hdrs) /\ hdrs[k] # new_hdrs[k]
                    THEN CellSet(ws, k, new_hdrs[k]) ELSE ws,
                    hdrs, new_hdrs, k + 1)

RECURSIVE InsertFrom(_, _, _, _, _)
\* the whole insertion loop, from column k
InsertFrom(ws, hdrs, new_hdrs, k, st) ==
    IF k > Len(new_hdrs) THEN [ws |-> ws, hdrs |-> hdrs]
    ELSE LET a == AddMissing(ws, hdrs, k, new_hdrs[k], st)
         IN  InsertFrom(a.ws, a.hdrs, new_hdrs, k + 1, st)

\* the body of the sheet loop for one selected sheet
SyncSheet(old_sheet, new_sheet, ad, st) ==
    LET nh == Row1(new_sheet)
        a == InsertFrom(old_sheet, Row1(old_sheet), nh, 1, st)
        d == DeleteObsolete(a.ws, a.hdrs, nh, ad)
    IN  RenameFrom(d.ws, d.hdrs, nh, 1)

\* if ignore_sheet_regex and re.match(ignore_sheet_regex, sheet_name)
Ignored(regex, name) == regex # NoRegex /\ ReMatch(regex, name)

SetSheet(wb, name, ws) == [wb EXCEPT ![IndexOfSheet(wb, name)] = ws]

RECURSIVE SyncFrom(_, _, _, _, _, _)
\* the loop over new_wb.sheetnames, from sheet i
SyncFrom(owb, nwb, i, ad, st, regex) ==
    IF i > Len(nwb) THEN owb
    ELSE LET n == nwb[i].name IN
         IF Ignored(regex, n) \/ ~HasSheet(owb, n)
         THEN SyncFrom(owb, nwb, i + 1, ad, st, regex)
         ELSE SyncFrom(SetSheet(owb, n, SyncSheet(SheetOf(owb, n), nwb[i], ad, st)),
                       nwb, i + 1, ad, st, regex)

\* ------------------------------------------------------------------- state
VARIABLES
    old_dir,            \* old workbooks on the backing store, one per file pair
    new_dir,            \* new workbooks on the backing store
    loadable,           \* per pair: openpyxl.load_workbook succeeds
    faults,             \* a step of the reconciliation may raise
    allow_delete, sync_type, ignore_sheet_regex,
    runs, run,          \* invocations of the script, and the current one
    start_dir,          \* old_dir when the current invocation began
    pc, file_idx,       \* position in compare_directory_files / the coroutine
    old_wb, new_wb,     \* the loaded workbooks
    sheet_idx,          \* position in "for sheet_name in new_wb.sheetnames"
    old_headers, new_headers,
    col_num,            \* position in the insertion loop
    save_count,         \* per pair: calls of old_wb.save in this invocation
    failed,             \* pairs whose processing raised in this invocation
    reconciled          \* sheets of the current pair that were reconciled

vars == <<old_dir, new_dir, loadable, faults, allow_delete, sync_type,
          ignore_sheet_regex, runs, run, start_dir, pc, file_idx, old_wb,
          new_wb, sheet_idx, old_headers, new_headers, col_num, save_count,
          failed, reconciled>>

inputs == <<new_dir, loadable, faults, allow_delete, sync_type,
            ignore_sheet_regex, runs>>

NumFiles == Len(new_dir)
sheet_name == new_wb[sheet_idx].name
old_sheet == SheetOf(old_wb, sheet_name)
new_sheet == new_wb[sheet_idx]

\* ---------------------------------------------------------- initial states
MkSheet(name, hdr) ==
    [name |-> name, header |-> hdr,
     rows |-> [r \in 1..NumRows |-> [c \in 1..Len(hdr) |-> c]]]

Headers(S, n) == UNION {[1..k -> S] : k \in 1..n}

\* workbooks of 1..MaxSheets distinctly named sheets, all with header hdr
Workbooks(hdr) ==
    {[i \in 1..Len(ns) |-> MkSheet(ns[i], hdr)] :
        ns \in {q \in UNION {[1..k -> SheetNames] : k \in 1..MaxSheets} :
                   \A i, j \in 1..Len(q) : i # j => q[i] # q[j]}}

Idle ==
    /\ run = 1
    /\ start_dir = old_dir
    /\ pc = "walk"
    /\ file_idx = 1
    /\ old_wb = <<>>
    /\ new_wb = <<>>
    /\ sheet_idx = 0
    /\ old_headers = <<>>
    /\ new_headers = <<>>
    /\ col_num = 0
    /\ save_count = [f \in 1..Len(old_dir) |-> 0]
    /\ failed = {}
    /\ reconciled = {}

\* one file pair, one sheet: every pair of headers, every policy, run twice
InitSheet ==
    /\ \E oh \in Headers(OldNames, MaxOldLen) : old_dir = << <<MkSheet(DataName, oh)>> >>
    /\ \E nh \in Headers(Names, MaxNewLen) : new_dir = << <<MkSheet(DataName, nh)>> >>
    /\ loadable = <<TRUE>>
    /\ faults = FALSE
    /\ allow_delete \in BOOLEAN
    /\ sync_type \in SyncTypes
    /\ ignore_sheet_regex = NoRegex
    /\ runs = 2

\* one file pair, several sheets: every choice of sheet names and pattern
InitBook ==
    /\ old_dir \in {<<w>> : w \in Workbooks(<<"A", "B">>)}
    /\ new_dir \in {<<w>> : w \in Workbooks(<<"A", "C">>)}
    /\ loadable = <<TRUE>>
    /\ faults = FALSE
    /\ allow_delete \in BOOLEAN
    /\ sync_type \in SyncTypes
    /\ ignore_sheet_regex \in Regexes
    /\ runs = 1

\* a directory of file pairs; loads may fail and steps may raise
InitDir ==
    /\ \E n \in 1..MaxPairs :
         /\ old_dir \in [1..n -> {<<MkSheet(DataName, h)>> :
                                     h \in {<<"A", "B">>, <<"B">>}}]
         /\ new_dir \in [1..n -> {<<MkSheet(DataName, h)>> :
                                     h \in {<<"A", "C">>, <<"B", "A">>}}]
         /\ loadable \in [1..n -> BOOLEAN]
    /\ faults = TRUE
    /\ allow_delete \in BOOLEAN
    /\ sync_type \in SyncTypes \cup {"None"}
    /\ ignore_sheet_regex = NoRegex
    /\ runs = 1

Init == (InitSheet \/ InitBook \/ InitDir) /\ Idle

\* ----------------------------------------------------------------- actions
Forget ==
    /\ old_wb' = <<>>
    /\ new_wb' = <<>>
    /\ sheet_idx' = 0
    /\ old_headers' = <<>>
    /\ new_headers' = <<>>
    /\ col_num' = 0

\* compare_directory_files: the next file pair; the coroutine starts and
\* sync_type is valid
StartPair ==
    /\ pc = "walk"
    /\ file_idx <= NumFiles
    /\ sync_type \in SyncTypes
    /\ pc' = "load"
    /\ UNCHANGED <<old_dir, inputs, run, start_dir, file_idx, old_wb, new_wb,
                   sheet_idx, old_headers, new_headers, col_num, save_count,
                   failed, reconciled>>

\* raise ValueError("Invalid sync_type ..."): outside the try, not caught
InvalidSyncType ==
    /\ pc = "walk"
    /\ file_idx <= NumFiles
    /\ sync_type \notin SyncTypes
    /\ pc' = "aborted"
    /\ UNCHANGED <<old_dir, inputs, run, start_dir, file_idx, old_wb, new_wb,
                   sheet_idx, old_headers, new_headers, col_num, save_count,
                   failed, reconciled>>

\* both load_workbook calls succeed
LoadWorkbooks ==
    /\ pc = "load"
    /\ loadable[file_idx]
    /\ old_wb' = old_dir[file_idx]
    /\ new_wb' = new_dir[file_idx]
    /\ sheet_idx' = 1
    /\ reconciled' = {}
    /\ pc' = "sheet"
    /\ UNCHANGED <<old_dir, inputs, run, start_dir, file_idx, old_headers,
                   new_headers, col_num, save_count, failed>>

\* except FileNotFoundError / except Exception: logged, the coroutine returns
Caught ==
    /\ failed' = failed \cup {file_idx}
    /\ file_idx' = file_idx + 1
    /\ pc' = "walk"
    /\ Forget
    /\ UNCHANGED <<old_dir, inputs, run, start_dir, save_count, reconciled>>

\* a load_workbook call raises
LoadFails ==
    /\ pc = "load"
    /\ ~loadable[file_idx]
    /\ Caught

\* faulty variant: the handler saves the half-reconciled workbook
SaveAlso ==
    /\ faults
    /\ pc \in {"sheet", "insert", "delete", "rename", "synced"}
    /\ old_dir' = [old_dir EXCEPT ![file_idx] = old_wb]
    /\ save_count' = [save_count EXCEPT ![file_idx] = @ + 1]
    /\ failed' = failed \cup {file_idx}
    /\ file_idx' = file_idx + 1
    /\ pc' = "walk"
    /\ Forget
    /\ UNCHANGED <<inputs, run, start_dir, reconciled>>

\* a statement of the sheet loop raises
Raise ==
    /\ faults
    /\ pc \in {"sheet", "insert", "delete", "rename", "synced"}
    /\ Caught

\* the sheet matches ignore_sheet_regex: continue
IgnoreSheet ==
    /\ pc = "sheet"
    /\ sheet_idx <= Len(new_wb)
    /\ Ignored(ignore_sheet_regex, sheet_name)
    /\ sheet_idx' = sheet_idx + 1
    /\ UNCHANGED <<old_dir, inputs, run, start_dir, pc, file_idx, old_wb,
                   new_wb, old_headers, new_headers, col_num, save_count,
                   failed, reconciled>>

\* the sheet is not in old_wb.sheetnames: continue
SkipMissingSheet ==
    /\ pc = "sheet"
    /\ sheet_idx <= Len(new_wb)
    /\ ~Ignored(ignore_sheet_regex, sheet_name)
    /\ ~HasSheet(old_wb, sheet_name)
    /\ sheet_idx' = sheet_idx + 1
    /\ UNCHANGED <<old_dir, inputs, run, start_dir, pc, file_idx, old_wb,
                   new_wb, old_headers, new_headers, col_num, save_count,
                   failed, reconciled>>

\* the sheet is selected: read both header rows
ReadHeaders ==
    /\ pc = "sheet"
    /\ sheet_idx <= Len(new_wb)
    /\ ~Ignored(ignore_sheet_regex, sheet_name)
    /\ HasSheet(old_wb, sheet_name)
    /\ old_headers' = Row1(old_sheet)
    /\ new_headers' = Row1(new_sheet)
    /\ col_num' = 1
    /\ reconciled' = reconciled \cup {sheet_name}
    /\ pc' = "insert"
    /\ UNCHANGED <<old_dir, inputs, run, start_dir, file_idx, old_wb, new_wb,
                   sheet_idx, save_count, failed>>

\* one iteration of the insertion loop
InsertStep ==
    /\ pc = "insert"
    /\ col_num <= Len(new_headers)
    /\ LET a == AddMissing(old_sheet, old_headers, col_num,
                           new_headers[col_num], sync_type)
       IN  /\ old_wb' = SetSheet(old_wb, sheet_name, a.ws)
           /\ old_headers' = a.hdrs
    /\ col_num' = col_num + 1
    /\ UNCHANGED <<old_dir, inputs, run, start_dir, pc, file_idx, new_wb,
                   sheet_idx, new_headers, save_count, failed, reconciled>>

\* the insertion loop is exhausted
EndInsert ==
    /\ pc = "insert"
    /\ col_num > Len(new_headers)
    /\ pc' = "delete"
    /\ UNCHANGED <<old_dir, inputs, run, start_dir, file_idx, old_wb, new_wb,
                   sheet_idx, old_headers, new_headers, col_num, save_count,
                   failed, reconciled>>

\* the deletion block
DeletePass ==
    /\ pc = "delete"
    /\ LET d == DeleteObsolete(old_sheet, old_headers, new_headers, allow_delete)
       IN  /\ old_wb' = SetSheet(old_wb, sheet_name, d.ws)
           /\ old_headers' = d.hdrs
    /\ pc' = "rename"
    /\ UNCHANGED <<old_dir, inputs, run, start_dir, file_idx, new_wb,
                   sheet_idx, new_headers, col_num, save_count, failed,
                   reconciled>>

\* the rename loop
RenamePass ==
    /\ pc = "rename"
    /\ old_wb' = SetSheet(old_wb, sheet_name,
                          RenameFrom(old_sheet, old_headers, new_headers, 1))
    /\ pc' = "synced"
    /\ UNCHANGED <<old_dir, inputs, run, start_dir, file_idx, new_wb,
                   sheet_idx, old_headers, new_headers, col_num, save_count,
                   failed, reconciled>>

\* back to the head of the sheet loop
NextSheet ==
    /\ pc = "synced"
    /\ sheet_idx' = sheet_idx + 1
    /\ pc' = "sheet"
    /\ UNCHANGED <<old_dir, inputs, run, start_dir, file_idx, old_wb, new_wb,
                   old_headers, new_headers, col_num, save_count, failed,
                   reconciled>>

\* old_wb.save(old_file) after the sheet loop; the coroutine returns
Save ==
    /\ pc = "sheet"
    /\ sheet_idx > Len(new_wb)
    /\ old_dir' = [old_dir EXCEPT ![file_idx] = old_wb]
    /\ save_count' = [save_count EXCEPT ![file_idx] = @ + 1]
    /\ file_idx' = file_idx + 1
    /\ pc' = "walk"
    /\ Forget
    /\ UNCHANGED <<inputs, run, start_dir, failed, reconciled>>

\* os.walk is exhausted
EndWalk ==
    /\ pc = "walk"
    /\ file_idx > NumFiles
    /\ pc' = "done"
    /\ UNCHANGED <<old_dir, inputs, run, start_dir, file_idx, old_wb, new_wb,
                   sheet_idx, old_headers, new_headers, col_num, save_count,
                   failed, reconciled>>

\* the script is invoked again with the same arguments
Rerun ==
    /\ pc = "done"
    /\ run < runs
    /\ run' = run + 1
    /\ start_dir' = old_dir
    /\ file_idx' = 1
    /\ save_count' = [f \in 1..NumFiles |-> 0]
    /\ failed' = {}
    /\ reconciled' = {}
    /\ pc' = "walk"
    /\ UNCHANGED <<old_dir, inputs, old_wb, new_wb, sheet_idx, old_headers,
                   new_headers, col_num>>

Next ==
    \/ StartPair
    \/ InvalidSyncType
    \/ LoadWorkbooks
    \/ LoadFails
    \/ Raise
    \/ IgnoreSheet
    \/ SkipMissingSheet
    \/ ReadHeaders
    \/ InsertStep
    \/ EndInsert
    \/ DeletePass
    \/ RenamePass
    \/ NextSheet
    \/ Save
    \/ EndWalk
    \/ Rerun

Spec == Init /\ [][Next]_vars

\* ------------------------------------------------------------ properties
NoDup(s) == \A i, j \in 1..Len(s) : i # j => s[i] # s[j]

\* the sheet being reconciled, as it was loaded
before_sheet == SheetOf(start_dir[file_idx], sheet_name)
header_before == Row1(before_sheet)
header_after == Row1(old_sheet)

\* C1 as stated: after a sheet is reconciled, every name of new_header is in
\* the old header row, for every pair of headers.
C1_AllHeaders ==
    pc = "synced" => Range(new_headers) \subseteq Range(header_after)

\* C1 amended: when new_header has no duplicate name, after a sheet is
\* reconciled every name of new_header is in the old header row.
C1_NewNamesPresent ==
    (pc = "synced" /\ NoDup(new_headers))
        => Range(new_headers) \subseteq Range(header_after)

C1_Witness ==
    /\ pc = "synced"
    /\ NoDup(new_headers)
    /\ ~(Range(new_headers) \subseteq Range(header_before))
    /\ Range(new_headers) \subseteq Range(header_after)

\* C2 as stated: without allow_delete every name of the old header is still
\* in the old header row after reconciliation, rename pass included.
C2_NamesKept ==
    (pc = "synced" /\ ~allow_delete)
        => Range(header_before) \subseteq Range(header_after)

\* C2 amended: without allow_delete no column is deleted: up to the rename
\* pass every name of the old header is still in the header row, and after
\* it the header row is no shorter than before and (first invocation, where
\* a data cell holds its column's index) every data row still holds the cell
\* of every original column; only the rename pass may overwrite an old name.
C2_NoColumnDeleted ==
    /\ (pc \in {"insert", "delete", "rename"} /\ ~allow_delete)
         => Range(header_before) \subseteq Range(header_after)
    /\ (pc = "synced" /\ ~allow_delete)
         => /\ Len(header_after) >= Len(header_before)
            /\ run = 1 => \A r \in 1..Len(old_sheet.rows) :
                   1..Len(header_before) \subseteq Range(old_sheet.rows[r])

C2_Witness ==
    /\ pc = "synced"
    /\ run = 1
    /\ ~allow_delete
    /\ ~(Range(header_before) \subseteq Range(new_headers))
    /\ ~(Range(header_before) \subseteq Range(header_after))
    /\ Len(header_after) > Len(header_before)

\* C3: with allow_delete, no name of the old header that is absent from
\* new_header is in the old header row after reconciliation; the columns
\* deleted are those of the obsolete names (highest index first), so (first
\* invocation, where a data cell holds its column's index) a data row keeps
\* the cell of an original column exactly when that column's name occurs in
\* new_header.
C3_ObsoleteRemoved ==
    (pc = "synced" /\ allow_delete)
        => /\ Range(header_after)
                \cap (Range(header_before) \ Range(new_headers)) = {}
           /\ run = 1 => \A r \in 1..Len(old_sheet.rows) :
                \A c \in 1..Len(header_before) :
                    (c \in Range(old_sheet.rows[r]))
                        <=> (header_before[c] \in Range(new_headers))

C3_Witness ==
    /\ pc = "synced"
    /\ run = 1
    /\ allow_delete
    /\ Cardinality(ColsToDelete(header_before, new_headers)) >= 2
    /\ ~(Range(new_headers) \subseteq Range(header_before))
    /\ Range(header_after)
          \cap (Range(header_before) \ Range(new_headers)) = {}

SameShape(wb1, wb2) ==
    /\ Len(wb1) = Len(wb2)
    /\ \A i \in 1..Len(wb1) :
         /\ Row1(wb1[i]) = Row1(wb2[i])
         /\ Len(wb1[i].rows) = Len(wb2[i].rows)
         /\ \A r \in 1..Len(wb1[i].rows) :
                Len(wb1[i].rows[r]) = Len(wb2[i].rows[r])

\* C4 as stated: a second run with the same inputs leaves every old header
\* row and the shape of every data row as the first run left them.
C4_Idempotent ==
    (run = 2 /\ pc = "done")
        => \A f \in 1..NumFiles : SameShape(old_dir[f], start_dir[f])

NewHeadersNoDup(f) == \A i \in 1..Len(new_dir[f]) : NoDup(Row1(new_dir[f][i]))

\* C4 amended: when new_header has no duplicate name, a second run with the
\* same inputs leaves every old header row and the shape of every data row
\* as the first run left them.
C4_IdempotentNoDup ==
    (run = 2 /\ pc = "done")
        => \A f \in 1..NumFiles :
              NewHeadersNoDup(f) => SameShape(old_dir[f], start_dir[f])

C4_Witness ==
    /\ run = 2
    /\ pc = "done"
    /\ NewHeadersNoDup(1)
    /\ save_count[1] = 1
    /\ Row1(old_dir[1][1]) # <<"A">>
    /\ Len(Row1(old_dir[1][1])) > Len(Row1(new_dir[1][1]))
    /\ SameShape(old_dir[1], start_dir[1])

\* old and new header have the same length and differ at one position only,
\* whose new name does not occur in the old header
OneRename(oh, nh) ==
    /\ Len(oh) = Len(nh)
    /\ \E p \in 1..Len(oh) :
         /\ oh[p] # nh[p]
         /\ nh[p] \notin Range(oh)
         /\ \A q \in 1..Len(oh) : q # p => oh[q] = nh[q]

\* C5: when the headers differ by one rename, reconciliation only overwrites
\* that header cell: the old header row becomes new_header, no column is
\* added and no data cell is removed or moved.
C5_RenameOnly ==
    (pc = "synced" /\ OneRename(header_before, new_headers))
        => /\ header_after = new_headers
           /\ old_sheet.rows = before_sheet.rows

\* C7: after reconciliation under 'moverows', every data row has as many
\* cells as the old header row.
C7_RowLength ==
    (pc = "synced" /\ sync_type = "moverows")
        => \A r \in 1..Len(old_sheet.rows) :
              Len(old_sheet.rows[r]) = Len(old_sheet.header)

C7_Witness ==
    /\ pc = "synced"
    /\ sync_type = "moverows"
    /\ allow_delete
    /\ ColsToDelete(header_before, new_headers) # {}
    /\ ~(Range(new_headers) \subseteq Range(header_before))
    /\ Len(old_sheet.header) # Len(header_before)
    /\ \A r \in 1..Len(old_sheet.rows) :
          Len(old_sheet.rows[r]) = Len(old_sheet.header)

\* ws2 is ws with a column named name inserted at index k
ShiftedAt(ws, ws2, k, name) ==
    LET w == MaxColumn(ws) IN
    /\ MaxColumn(ws2) = IF k <= w THEN w + 1 ELSE k
    /\ Row1(ws2)[k] = name
    /\ Len(ws2.rows) = Len(ws.rows)
    /\ \A r \in 1..Len(ws.rows) :
         /\ Len(ws2.rows[r]) = MaxColumn(ws2)
         /\ ws2.rows[r][k] = EmptyCell
    /\ \A j \in 1..w :
         LET j2 == IF j < k THEN j ELSE j + 1 IN
         /\ Row1(ws2)[j2] = Row1(ws)[j]
         /\ \A r \in 1..Len(ws.rows) : ws2.rows[r][j2] = ws.rows[r][j]

C6_Case ==
    /\ pc = "synced"
    /\ run = 1
    /\ sync_type = "moverows"
    /\ header_before = <<"A", "C">>
    /\ new_headers = <<"A", "B", "C">>

\* C6: under 'moverows' a name of new_header missing from the old header is
\* inserted at the index it has in new_header; the old columns at that index
\* and to its right move one position right with their data cells and the
\* inserted column is blank in every data row. Old header [A,C] against
\* [A,B,C] ends as [A,B,C] with the data of column 2 in column 3.
C6_InsertShifting ==
    /\ [][(/\ pc = "insert"
           /\ pc' = "insert"
           /\ sync_type = "moverows"
           /\ new_headers[col_num] \notin Range(old_headers))
            => ShiftedAt(old_sheet, old_sheet', col_num, new_headers[col_num])]_vars
    /\ [](C6_Case => /\ header_after = <<"A", "B", "C">>
                     /\ \A r \in 1..Len(old_sheet.rows) :
                           old_sheet.rows[r] = <<1, EmptyCell, 2>>)

C6_Witness ==
    /\ C6_Case
    /\ header_after = <<"A", "B", "C">>
    /\ old_sheet.rows[1] = <<1, EmptyCell, 2>>

\* the pattern matches the name from its first character on
StartsWith(name, pattern) ==
    /\ Len(pattern) <= Len(name)
    /\ \A i \in 1..Len(pattern) : name[i] = pattern[i]

\* a same-named sheet exists in the new workbook and is not ignored
Selected(name) ==
    /\ HasSheet(new_wb, name)
    /\ ~(ignore_sheet_regex # NoRegex /\ StartsWith(name, ignore_sheet_regex))

SheetsDone == pc = "sheet" /\ sheet_idx > Len(new_wb)

\* C8: a sheet of the old workbook is reconciled iff a same-named sheet is in
\* the new workbook and the ignore pattern does not match its name from the
\* start ('Temp' skips 'Temp_2024', '2024' does not); every other sheet of
\* the old workbook stays as loaded and as stored, a new sheet missing from
\* the old workbook does not stop the loop, and the new workbook is never
\* modified.
C8_SheetSelection ==
    /\ [](SheetsDone =>
            \A i \in 1..Len(old_wb) :
                (old_wb[i].name \in reconciled) <=> Selected(old_wb[i].name))
    /\ [](SheetsDone =>
            /\ (ignore_sheet_regex = <<"Temp">> => TempName \notin reconciled)
            /\ (/\ ignore_sheet_regex = <<"2024">>
                /\ HasSheet(old_wb, TempName)
                /\ HasSheet(new_wb, TempName)) => TempName \in reconciled)
    /\ [](pc \in {"sheet", "insert", "delete", "rename", "synced"} =>
            /\ new_wb = new_dir[file_idx]
            /\ SheetNamesOf(old_wb) = SheetNamesOf(start_dir[file_idx])
            /\ \A i \in 1..Len(old_wb) :
                  ~Selected(old_wb[i].name) => old_wb[i] = start_dir[file_idx][i])
    /\ [](pc = "done" =>
            \A f \in 1..NumFiles : \A i \in 1..Len(old_dir[f]) :
                (~HasSheet(new_dir[f], old_dir[f][i].name)
                   \/ (ignore_sheet_regex # NoRegex
                       /\ StartsWith(old_dir[f][i].name, ignore_sheet_regex)))
                  => old_dir[f][i] = start_dir[f][i])
    /\ [][new_dir' = new_dir]_vars

C8_Witness ==
    /\ SheetsDone
    /\ ignore_sheet_regex = <<"2024">>
    /\ SheetNamesOf(new_wb) = <<DataName, YearName, TempName>>
    /\ SheetNamesOf(old_wb) = <<TempName, YearName>>
    /\ reconciled = {TempName}
    /\ old_wb[1] # start_dir[file_idx][1]
    /\ old_wb[2] = start_dir[file_idx][2]

\* C9: a pair's old workbook is saved at most once and only after the sheet
\* loop has ended; when a load or a reconciliation step raises, the pair is
\* left without a save, its old file is unchanged, and the walk goes on to
\* the next pair; processing a pair never touches another pair's file, and
\* every pair that did not fail ends as the reconciliation of its own two
\* workbooks.
C9_SingleCommit ==
    /\ [](\A f \in 1..NumFiles : save_count[f] <= 1)
    /\ [][\A f \in 1..NumFiles :
            save_count'[f] > save_count[f]
              => (f = file_idx /\ SheetsDone /\ f \notin failed')]_vars
    /\ [](\A f \in failed : save_count[f] = 0 /\ old_dir[f] = start_dir[f])
    /\ [][failed' # failed /\ run' = run
            => /\ failed' = failed \cup {file_idx}
               /\ pc' = "walk"
               /\ file_idx' = file_idx + 1
               /\ old_dir' = old_dir]_vars
    /\ [][\A f \in 1..NumFiles :
            old_dir'[f] # old_dir[f] => (f = file_idx /\ SheetsDone)]_vars
    /\ [](pc = "done" =>
            \A f \in 1..NumFiles :
               IF f \in failed
               THEN old_dir[f] = start_dir[f]
               ELSE /\ save_count[f] = 1
                    /\ old_dir[f] = SyncFrom(start_dir[f], new_dir[f], 1,
                                             allow_delete, sync_type,
                                             ignore_sheet_regex))

C9_Witness ==
    /\ pc = "done"
    /\ NumFiles = 2
    /\ loadable = <<TRUE, TRUE>>
    /\ failed = {1}
    /\ save_count = <<0, 1>>
    /\ old_dir[1] = start_dir[1]
    /\ old_dir[2] # start_dir[2]

\* C10: when new_header has no duplicate name the old header row ends with
\* new_header as a prefix; with allow_delete and no duplicate name in the
\* old header either, it ends equal to new_header. The rename pass relabels
\* header cells only: no data cell moves.
C10_Prefix ==
    /\ []((pc = "synced" /\ NoDup(new_headers))
            => /\ Len(header_after) >= Len(new_headers)
               /\ SubSeq(header_after, 1, Len(new_headers)) = new_headers)
    /\ []((pc = "synced" /\ NoDup(new_headers) /\ allow_delete
              /\ NoDup(header_before))
            => header_after = new_headers)
    /\ [][(pc = "rename" /\ pc' = "synced")
            => old_sheet'.rows = old_sheet.rows]_vars

C10_Witness ==
    /\ pc = "synced"
    /\ NoDup(new_headers)
    /\ NoDup(header_before)
    /\ allow_delete
    /\ Len(new_headers) = 3
    /\ old_headers # new_headers
    /\ Range(header_before) \cap Range(new_headers) # {}
    /\ header_after = new_headers

=============================================================================
